---- MODULE Spec2Model ----
(***************************************************************************)
(* Model of the learning-tracker site's progress store and analytics:      *)
(* Store.get / getProgress, the practice page's attempt recording, the     *)
(* multi-track dashboard (renderDashboardMulti), the per-track fold        *)
(* (computeTrackAnalytics with calcStreak), buildDailySeries, the          *)
(* analytics cards (renderAnalytics with preloadProblemsForTracks) and the *)
(* single-track pages (renderDashboard, renderTrackDetail).                *)
(*                                                                         *)
(* Time is counted in ticks, TicksPerDay ticks to a calendar day; a day    *)
(* key (toISOString().slice(0,10)) is the day number of a tick.  The host  *)
(* clock is assumed to have no daylight-saving change inside a window, so  *)
(* that setDate(getDate() - i) moves a Date back by exactly i days.        *)
(* A timestamp of 0 stands for an absent `last` (null / undefined): the    *)
(* code tests it with `if (!s.last)`.                                      *)
(***************************************************************************)
EXTENDS Integers, Sequences, FiniteSets, TLC

VARIABLES
  store,          \* localStorage: track key -> stored item
  catalog,        \* the static problem source: track key -> list of problems
  now,            \* the host clock (Date.now()), in ticks
  problemsCache,  \* window.__problemsCache: track key -> unset | null | a list
  ret,            \* the last value returned by a store or analytics helper
  session,        \* the practice page: initPractice's closure (trackKey, progress, p)
  inputs,         \* the values typed into the attempt form's inputs
  mpc,            \* renderDashboardMulti: "idle" | "awaiting" | "rendered" | "rejected"
  fetch,          \* per section, its loadJson: "idle" | "pending" | "ok" | "fail"
  overall,        \* renderDashboardMulti's `overall` accumulator
  recent,         \* renderDashboardMulti's `recent` array
  cards,          \* per section, the card its callback returned, or "none"
  dom,            \* what renderDashboardMulti wrote into the page
  apc,            \* renderAnalytics: "idle" | "preloading" | "rendered" | "rejected"
  preload,        \* per track, its problem-list fetch: "idle" | "pending" | "ok" | "fail" | "skipped"
  analytics,      \* per track, the card renderAnalytics wrote into #analyticsCards
  lastOp          \* the handler that ran last

vars == <<store, catalog, now, problemsCache, ret, session, inputs,
          mpc, fetch, overall, recent, cards, dom, apc, preload, analytics, lastOp>>

(* ------------------------------ bounds --------------------------------- *)
TicksPerDay == 2
Today == 20
MaxCount == 3
MaxEntries == 3
MaxProblems == 5
MaxSubmits == 3
MaxTicks == 1
MaxFeedEntries == 6

(* ------------------------- program constants --------------------------- *)
DefaultDays == 14
StreakCap == 365
FeedLimit == 10
RecentLimit == 8

Tracks == {"jc_progress", "mj_progress"}
TrackOrder == <<"jc_progress", "mj_progress">>
Pid(i) == <<"p1", "p2", "p3", "p4", "p5", "p6", "p7", "p8">>[i]

(* ------------------------------ helpers -------------------------------- *)
Range(s) == {s[i] : i \in DOMAIN s}

RECURSIVE SeqsUpTo(_, _)
\* every sequence over S of length at most n
SeqsUpTo(S, n) ==
  IF n = 0 THEN {<<>>}
  ELSE LET shorter == SeqsUpTo(S, n - 1)
       IN shorter \cup {Append(q, x) : q \in {r \in shorter : Len(r) = n - 1}, x \in S}

\* a progress object: the i-th inserted key is Pid(i)
Keyed(stats) == [i \in DOMAIN stats |->
  [pid |-> Pid(i), attempts |-> stats[i].attempts,
   passes |-> stats[i].passes, last |-> stats[i].last]]

\* new Date(ts).toISOString().slice(0, 10)
DayKey(ts) == ts \div TicksPerDay

\* const d = new Date(today); d.setDate(today.getDate() - i); d.toISOString().slice(0,10)
DayKeyBack(i) == DayKey(now - i * TicksPerDay)

(* ------------------------------ the store ------------------------------ *)
Missing == [kind |-> "missing", rec |-> <<>>]
Malformed == [kind |-> "malformed", rec |-> <<>>]
\* JSON.stringify(val)
JsonStringify(val) == [kind |-> "json", rec |-> val]
\* JSON.parse(text): throws (ok = FALSE) on text that is not JSON
JsonParse(text) == [ok |-> text.kind = "json", val |-> text.rec]

\* localStorage.getItem(key) || fallback
GetItemOr(key, fallback) ==
  IF store[key].kind = "missing" THEN fallback ELSE store[key]

\* a call's outcome: the value returned, or an exception thrown to the caller
Returns(v) == [threw |-> FALSE, val |-> v]
Throws == [threw |-> TRUE, val |-> <<>>]

StoreGetNoCatch(key, def) ==
  LET r == JsonParse(GetItemOr(key, JsonStringify(def)))
  IN IF r.ok THEN Returns(r.val) ELSE Throws

\* Store.get(key, def): try { return JSON.parse(...) } catch { return def }
StoreGet(key, def) ==
  LET r == JsonParse(GetItemOr(key, JsonStringify(def)))
  IN IF r.ok THEN Returns(r.val) ELSE Returns(def)

\* getProgress(trackKey)
getProgress(trackKey) ==
  LET r == JsonParse(GetItemOr(trackKey, JsonStringify(<<>>)))
  IN IF r.ok THEN Returns(r.val) ELSE Returns(<<>>)

\* window.__problemsCache?.[trackKey]
CacheUnset == [kind |-> "unset", list |-> <<>>]
CacheNull == [kind |-> "null", list |-> <<>>]
CacheList(l) == [kind |-> "list", list |-> l]

(* --------------------------- per-track fold ---------------------------- *)
\* Math.round((passed / total) * 100) for a non-zero total
MathRound100(passed, total) == (200 * passed + total) \div (2 * total)

\* a percentage that reads an empty total as complete
pctEmptyIsFull(passed, total) == IF total # 0 THEN MathRound100(passed, total) ELSE 100

\* pct(passed, total), and the same expression written inline elsewhere
pct(passed, total) == IF total # 0 THEN MathRound100(passed, total) ELSE 0

RECURSIVE FoldProgressSolvedByAttempts(_, _)
FoldProgressSolvedByAttempts(rec, stats) ==
  IF rec = <<>> THEN stats
  ELSE LET s == Head(rec)
       IN FoldProgressSolvedByAttempts(Tail(rec),
            [stats EXCEPT
               !.attempts = @ + s.attempts,
               !.passes = @ + s.passes,
               !.solved = IF s.attempts > 0 THEN @ + 1 ELSE @,
               !.lastActive = IF s.last # 0 /\ (@ = 0 \/ s.last > @) THEN s.last ELSE @])

RECURSIVE FoldProgress(_, _)
\* Object.values(progress).forEach(s => { ... }) of computeTrackAnalytics
FoldProgress(rec, stats) ==
  IF rec = <<>> THEN stats
  ELSE LET s == Head(rec)
       IN FoldProgress(Tail(rec),
            [stats EXCEPT
               !.attempts = @ + s.attempts,
               !.passes = @ + s.passes,
               !.solved = IF s.passes > 0 THEN @ + 1 ELSE @,
               !.lastActive = IF s.last # 0 /\ (@ = 0 \/ s.last > @) THEN s.last ELSE @])

\* the set of day keys on which the record has activity
DaysSet(rec) == {DayKey(rec[i].last) : i \in {j \in DOMAIN rec : rec[j].last # 0}}

RECURSIVE StreakWalk(_, _, _)
StreakWalk(set, offset, streak) ==
  IF offset >= StreakCap THEN streak
  ELSE IF DayKeyBack(offset) \in set THEN StreakWalk(set, offset + 1, streak + 1)
  ELSE IF offset = 0 THEN StreakWalk(set, offset + 1, streak)
  ELSE streak

RECURSIVE StreakWalkNoGrace(_, _, _)
StreakWalkNoGrace(set, offset, streak) ==
  IF offset >= StreakCap THEN streak
  ELSE IF DayKeyBack(offset) \in set THEN StreakWalkNoGrace(set, offset + 1, streak + 1)
  ELSE streak

calcStreakNoGrace(set) == StreakWalkNoGrace(set, 0, 0)

\* calcStreak(set)
calcStreak(set) == StreakWalk(set, 0, 0)

\* computeTrackAnalytics(track)
computeTrackAnalytics(trackKey) ==
  LET pList == problemsCache[trackKey]
      progress == getProgress(trackKey).val
      stats0 == [solved |-> 0, total |-> 0, attempts |-> 0, passes |-> 0,
                 accuracy |-> 0, lastActive |-> 0, streak |-> 0]
      stats1 == IF pList.kind = "list"
                THEN [stats0 EXCEPT !.total = Len(pList.list)] ELSE stats0
      stats2 == FoldProgress(progress, stats1)
  IN [stats2 EXCEPT !.accuracy = pct(stats2.passes, stats2.attempts),
                    !.streak = calcStreak(DaysSet(progress))]

(* ------------------------- daily activity series ----------------------- *)
RECURSIVE AddEntries(_, _)
\* Object.values(p).forEach(s => { ... }) of buildDailySeries
AddEntries(rec, counts) ==
  IF rec = <<>> THEN counts
  ELSE LET s == Head(rec)
           dayKey == DayKey(s.last)
       IN AddEntries(Tail(rec),
            IF s.last = 0 THEN counts
            ELSE IF dayKey \in DOMAIN counts
                 THEN [counts EXCEPT ![dayKey] = @ + (IF s.attempts # 0 THEN s.attempts ELSE 1)]
                 ELSE counts)

RECURSIVE AddTracks(_, _)
\* trackKeys.forEach(k => { try { ... } catch (_) {} })
AddTracks(trackKeys, counts) ==
  IF trackKeys = <<>> THEN counts
  ELSE LET r == JsonParse(GetItemOr(Head(trackKeys), JsonStringify(<<>>)))
       IN AddTracks(Tail(trackKeys), IF r.ok THEN AddEntries(r.val, counts) ELSE counts)

WindowLabelsInclusive(days) == [j \in 1..(days + 1) |-> DayKeyBack(days + 1 - j)]

\* the for loop of buildDailySeries: i = days - 1 down to 0
WindowLabels(days) == [j \in 1..days |-> DayKeyBack(days - j)]

\* a series that keeps only the days that have activity
buildDailySeriesSparse(trackKeys, days) ==
  LET labels == WindowLabels(days)
      counts == AddTracks(trackKeys, [k \in Range(labels) |-> 0])
      kept == SelectSeq(labels, LAMBDA l : counts[l] > 0)
  IN [labels |-> kept, series |-> [j \in DOMAIN kept |-> counts[kept[j]]]]

\* buildDailySeries(trackKeys, days)
buildDailySeries(trackKeys, days) ==
  LET labels == WindowLabels(days)
      counts0 == [k \in Range(labels) |-> 0]
      counts == AddTracks(trackKeys, counts0)
  IN [labels |-> labels, series |-> [j \in DOMAIN labels |-> counts[labels[j]]]]

(* --------------------------- practice page ----------------------------- *)
IsSpace(c) == c \in {" ", "\t"}
ToLowerChar(c) == IF c = "A" THEN "a" ELSE IF c = "B" THEN "b" ELSE c

RECURSIVE TrimStart(_)
TrimStart(s) == IF s # <<>> /\ IsSpace(Head(s)) THEN TrimStart(Tail(s)) ELSE s

RECURSIVE TrimEnd(_)
TrimEnd(s) ==
  IF s # <<>> /\ IsSpace(s[Len(s)]) THEN TrimEnd(SubSeq(s, 1, Len(s) - 1)) ELSE s

RECURSIVE CollapseSpaces(_)
\* .replace(/\s+/g, ' ')
CollapseSpaces(s) ==
  IF s = <<>> THEN <<>>
  ELSE IF IsSpace(Head(s)) THEN <<" ">> \o CollapseSpaces(TrimStart(s))
  ELSE <<Head(s)>> \o CollapseSpaces(Tail(s))

\* normalize(s): (s || '').trim().replace(/\s+/g, ' ').toLowerCase()
normalize(s) ==
  LET t == CollapseSpaces(TrimEnd(TrimStart(s)))
  IN [i \in DOMAIN t |-> ToLowerChar(t[i])]

\* the per-test results of the submit handler's for loop
TestResults(answers, tests) ==
  [i \in DOMAIN tests |-> normalize(answers[i]) = normalize(tests[i])]

\* a lookup that finds no key: every assignment adds an entry
KeyIndexNeverFound(rec, pid) == 0

\* progress[p.id]: the index of the key in the object, 0 when absent
KeyIndex(rec, pid) ==
  IF \E i \in DOMAIN rec : rec[i].pid = pid
  THEN CHOOSE i \in DOMAIN rec : rec[i].pid = pid ELSE 0

\* an assignment that starts a fresh object holding the one stat
SetKeyAlone(rec, stat) == <<stat>>

\* progress[p.id] = stat
SetKey(rec, stat) ==
  LET i == KeyIndex(rec, stat.pid)
  IN IF i = 0 THEN Append(rec, stat) ELSE [rec EXCEPT ![i] = stat]

RecordAttemptAlwaysPass(rec, pid, passAll, t) ==
  LET i == KeyIndex(rec, pid)
      stat == IF i # 0 THEN rec[i] ELSE [pid |-> pid, attempts |-> 0, passes |-> 0, last |-> 0]
  IN SetKey(rec, [stat EXCEPT !.attempts = @ + 1, !.passes = @ + 1, !.last = t])

\* an update that counts a passed attempt as a pass only
RecordAttemptPassOrFail(rec, pid, passAll, t) ==
  LET i == KeyIndex(rec, pid)
      stat == IF i # 0 THEN rec[i] ELSE [pid |-> pid, attempts |-> 0, passes |-> 0, last |-> 0]
  IN SetKey(rec, [stat EXCEPT !.attempts = IF passAll THEN @ ELSE @ + 1,
                              !.passes = IF passAll THEN @ + 1 ELSE @,
                              !.last = t])

\* the "update progress" block of the submit handler
RecordAttempt(rec, pid, passAll, t) ==
  LET i == KeyIndex(rec, pid)
      stat == IF i # 0 THEN rec[i] ELSE [pid |-> pid, attempts |-> 0, passes |-> 0, last |-> 0]
  IN SetKey(rec, [stat EXCEPT !.attempts = @ + 1,
                              !.passes = IF passAll THEN @ + 1 ELSE @,
                              !.last = t])

\* no helper has been called on the current page
NoCall == [fn |-> "none", keys |-> <<>>, days |-> 0]
ZeroOverall == [totalProblems |-> 0, attempts |-> 0, passes |-> 0, solved |-> 0]
NoCard == [done |-> FALSE, title |-> "", solved |-> 0, total |-> 0, attempts |-> 0,
           passes |-> 0, acc |-> 0, solvedPerc |-> 0]
EmptyDom == [overallSet |-> FALSE, overall |-> ZeroOverall, accOverall |-> 0,
             solvedPercAll |-> 0, tracksSet |-> FALSE, tracks |-> <<>>,
             recentSet |-> FALSE, recent |-> <<>>]
\* #analyticsCards before renderAnalytics has filled it
NoStats == [done |-> FALSE, title |-> "", solved |-> 0, total |-> [known |-> FALSE, n |-> 0],
            attempts |-> 0, accuracy |-> 0, lastActive |-> 0, streak |-> 0]
NoSession == [active |-> FALSE, trackKey |-> "", progress |-> <<>>, cur |-> 0]
MultiIdle ==
  /\ mpc = "idle"
  /\ fetch = [t \in Tracks |-> "idle"]
  /\ apc = "idle"
\* the dashboard page's state when the document is left or not yet loaded
ResetMulti ==
  /\ mpc' = "idle"
  /\ fetch' = [t \in Tracks |-> "idle"]
  /\ overall' = ZeroOverall
  /\ recent' = <<>>
  /\ cards' = [t \in Tracks |-> NoCard]
  /\ dom' = EmptyDom

\* initPractice: the problem list is fetched, then the progress is read once
InitPractice(trackKey, fetchOk) ==
  /\ session' = IF fetchOk
                THEN [active |-> TRUE, trackKey |-> trackKey,
                      progress |-> StoreGet(trackKey, <<>>).val, cur |-> 0]
                ELSE NoSession
  /\ inputs' = <<>>
  /\ ResetMulti
  /\ ret' = NoCall
  /\ lastOp' = "initPractice"
  /\ UNCHANGED <<store, catalog, now, problemsCache,
                 apc, preload, analytics>>

\* the list's click handler: renderProblem builds an empty form for problem i
ClickProblem(i) ==
  /\ session.active
  /\ i \in DOMAIN catalog[session.trackKey]
  /\ session' = [session EXCEPT !.cur = i]
  /\ inputs' = [j \in DOMAIN catalog[session.trackKey][i].tests |-> <<>>]
  /\ lastOp' = "click"
  /\ UNCHANGED <<store, catalog, now, problemsCache, ret, mpc, fetch, overall, recent, cards, dom,
                 apc, preload, analytics>>

\* the user types into input j of the form
TypeAnswer(j, text) ==
  /\ session.active
  /\ session.cur # 0
  /\ j \in DOMAIN inputs
  /\ inputs[j] # text
  /\ inputs' = [inputs EXCEPT ![j] = text]
  /\ lastOp' = "type"
  /\ UNCHANGED <<store, catalog, now, problemsCache, ret, session,
                 mpc, fetch, overall, recent, cards, dom,
                 apc, preload, analytics>>

RECURSIVE SumAttempts(_)
SumAttempts(rec) == IF rec = <<>> THEN 0 ELSE Head(rec).attempts + SumAttempts(Tail(rec))

\* the attempts recorded so far, over all tracks
TotalRecorded ==
  LET a == store[TrackOrder[1]].rec
      b == store[TrackOrder[2]].rec
  IN SumAttempts(a) + SumAttempts(b)

\* the attempt form's submit handler
Submit ==
  /\ session.active
  /\ session.cur # 0
  /\ TotalRecorded < MaxSubmits
  /\ LET p == catalog[session.trackKey][session.cur]
         results == TestResults(inputs, p.tests)
         passAll == \A i \in DOMAIN results : results[i]
         progress == RecordAttempt(session.progress, p.id, passAll, now)
     IN /\ session' = [session EXCEPT !.progress = progress]
        /\ store' = [store EXCEPT ![session.trackKey] = JsonStringify(progress)]
  /\ lastOp' = "submit"
  /\ UNCHANGED <<catalog, now, problemsCache, ret, inputs, mpc, fetch, overall, recent, cards, dom,
                 apc, preload, analytics>>

\* the host clock advances
Tick ==
  /\ now < Today * TicksPerDay + MaxTicks
  /\ now' = now + 1
  /\ lastOp' = "tick"
  /\ UNCHANGED <<store, catalog, problemsCache, ret, session, inputs,
                 mpc, fetch, overall, recent, cards, dom,
                 apc, preload, analytics>>

(* ------------------------ multi-track dashboard ------------------------ *)
RECURSIVE FoldCard(_, _)
\* Object.values(progress).forEach(st => { attempts += ...; passes += ...; solved++ })
FoldCard(rec, acc) ==
  IF rec = <<>> THEN acc
  ELSE LET st == Head(rec)
       IN FoldCard(Tail(rec),
            [attempts |-> acc.attempts + st.attempts,
             passes |-> acc.passes + st.passes,
             solved |-> IF st.passes > 0 THEN acc.solved + 1 ELSE acc.solved])

RECURSIVE RecentOf(_, _)
\* Object.entries(progress).filter(([, st]) => st.last).forEach(... recent.push(...))
RecentOf(rec, title) ==
  IF rec = <<>> THEN <<>>
  ELSE LET st == Head(rec)
       IN (IF st.last # 0
           THEN <<[when |-> st.last, pid |-> st.pid, track |-> title, passed |-> st.passes > 0]>>
           ELSE <<>>) \o RecentOf(Tail(rec), title)

RECURSIVE InsertDesc(_, _)
\* x goes after every element that does not sort after it (the sort is stable)
InsertDesc(sorted, x) ==
  IF sorted = <<>> THEN <<x>>
  ELSE IF Head(sorted).when >= x.when THEN <<Head(sorted)>> \o InsertDesc(Tail(sorted), x)
  ELSE <<x>> \o sorted

RECURSIVE SortDescFrom(_, _)
SortDescFrom(sorted, rest) ==
  IF rest = <<>> THEN sorted ELSE SortDescFrom(InsertDesc(sorted, Head(rest)), Tail(rest))

\* recent.sort((a, b) => b.when - a.when)
SortRecent(list) == SortDescFrom(<<>>, list)

\* list.slice(0, n)
Slice0(list, n) == SubSeq(list, 1, IF Len(list) < n THEN Len(list) ELSE n)

RecentFeedNoSort(list) == Slice0(list, FeedLimit)

\* recent.sort(...); recent.slice(0, 10)
RecentFeed(list) == Slice0(SortRecent(list), FeedLimit)

PromiseAny(states) ==
  IF \E t \in DOMAIN states : states[t] = "fail" THEN "rejected"
  ELSE IF \E t \in DOMAIN states : states[t] = "ok" THEN "fulfilled"
  ELSE "pending"

\* Promise.all over the sections' callbacks: rejected by the first rejection,
\* fulfilled when every callback has returned its card
PromiseAll(states) ==
  IF \E t \in DOMAIN states : states[t] = "fail" THEN "rejected"
  ELSE IF \A t \in DOMAIN states : states[t] = "ok" THEN "fulfilled"
  ELSE "pending"

\* renderDashboardMulti up to its await: every section's loadJson is issued
StartMulti ==
  /\ mpc' = "awaiting"
  /\ fetch' = [t \in Tracks |-> "pending"]
  /\ overall' = ZeroOverall
  /\ recent' = <<>>
  /\ cards' = [t \in Tracks |-> NoCard]
  /\ dom' = EmptyDom
  /\ session' = NoSession
  /\ inputs' = <<>>
  /\ ret' = NoCall
  /\ lastOp' = "renderDashboardMulti"
  /\ UNCHANGED <<store, catalog, now, problemsCache,
                 apc, preload, analytics>>

\* a callback that assigns its track's sums to `overall` instead of adding them
FetchOkLastWins(t) ==
  /\ mpc \in {"awaiting", "rejected"}
  /\ fetch[t] = "pending"
  /\ LET problems == catalog[t]
         progress == StoreGet(t, <<>>).val
         total == Len(problems)
         sums == FoldCard(progress, [attempts |-> 0, passes |-> 0, solved |-> 0])
     IN /\ recent' = recent \o RecentOf(progress, t)
        /\ overall' = [totalProblems |-> total, attempts |-> sums.attempts,
                       passes |-> sums.passes, solved |-> sums.solved]
        /\ cards' = [cards EXCEPT ![t] =
                       [done |-> TRUE, title |-> t, solved |-> sums.solved, total |-> total,
                        attempts |-> sums.attempts, passes |-> sums.passes,
                        acc |-> pct(sums.passes, sums.attempts),
                        solvedPerc |-> pct(sums.solved, total)]]
  /\ fetch' = [fetch EXCEPT ![t] = "ok"]
  /\ lastOp' = "fetchOk"
  /\ UNCHANGED <<store, catalog, now, problemsCache, ret, session, inputs, mpc, dom,
                 apc, preload, analytics>>

\* section t's loadJson resolves and the rest of its callback runs
FetchOk(t) ==
  /\ mpc \in {"awaiting", "rejected"}
  /\ fetch[t] = "pending"
  /\ LET problems == catalog[t]
         progress == StoreGet(t, <<>>).val
         total == Len(problems)
         sums == FoldCard(progress, [attempts |-> 0, passes |-> 0, solved |-> 0])
     IN /\ recent' = recent \o RecentOf(progress, t)
        /\ overall' = [totalProblems |-> overall.totalProblems + total,
                       attempts |-> overall.attempts + sums.attempts,
                       passes |-> overall.passes + sums.passes,
                       solved |-> overall.solved + sums.solved]
        /\ cards' = [cards EXCEPT ![t] =
                       [done |-> TRUE, title |-> t, solved |-> sums.solved, total |-> total,
                        attempts |-> sums.attempts, passes |-> sums.passes,
                        acc |-> pct(sums.passes, sums.attempts),
                        solvedPerc |-> pct(sums.solved, total)]]
  /\ fetch' = [fetch EXCEPT ![t] = "ok"]
  /\ lastOp' = "fetchOk"
  /\ UNCHANGED <<store, catalog, now, problemsCache, ret, session, inputs, mpc, dom,
                 apc, preload, analytics>>

\* section t's loadJson throws: its callback rejects, and so does Promise.all
\* and with it renderDashboardMulti, whatever the other sections do later
FetchFail(t) ==
  /\ mpc \in {"awaiting", "rejected"}
  /\ fetch[t] = "pending"
  /\ fetch' = [fetch EXCEPT ![t] = "fail"]
  /\ mpc' = IF PromiseAll(fetch') = "rejected" THEN "rejected" ELSE mpc
  /\ lastOp' = "fetchFail"
  /\ UNCHANGED <<store, catalog, now, problemsCache, ret, session, inputs,
                 overall, recent, cards, dom,
                 apc, preload, analytics>>

\* renderDashboardMulti after its await: the summary, the cards and the feed
RenderMulti ==
  /\ mpc = "awaiting"
  /\ PromiseAll(fetch) = "fulfilled"
  /\ mpc' = "rendered"
  /\ dom' = [overallSet |-> TRUE, overall |-> overall,
             accOverall |-> pct(overall.passes, overall.attempts),
             solvedPercAll |-> pct(overall.solved, overall.totalProblems),
             tracksSet |-> TRUE, tracks |-> [i \in DOMAIN TrackOrder |-> cards[TrackOrder[i]]],
             recentSet |-> TRUE, recent |-> RecentFeed(recent)]
  /\ recent' = SortRecent(recent)
  /\ lastOp' = "renderMulti"
  /\ UNCHANGED <<store, catalog, now, problemsCache, ret, session, inputs,
                 fetch, overall, cards,
                 apc, preload, analytics>>

(* ------------------- calls of the store and analytics helpers ---------- *)
WindowSizes == {0, 1, 2, DefaultDays, DefaultDays + 1}
KeyLists == {<<TrackOrder[1]>>, TrackOrder}

CallStoreGet(t) ==
  /\ MultiIdle
  /\ ret = NoCall
  /\ ret' = [fn |-> "Store.get", keys |-> <<t>>, days |-> 0, val |-> StoreGet(t, <<>>)]
  /\ lastOp' = "Store.get"
  /\ UNCHANGED <<store, catalog, now, problemsCache, session, inputs,
                 mpc, fetch, overall, recent, cards, dom,
                 apc, preload, analytics>>

CallGetProgress(t) ==
  /\ MultiIdle
  /\ ret = NoCall
  /\ ret' = [fn |-> "getProgress", keys |-> <<t>>, days |-> 0, val |-> getProgress(t)]
  /\ lastOp' = "getProgress"
  /\ UNCHANGED <<store, catalog, now, problemsCache, session, inputs,
                 mpc, fetch, overall, recent, cards, dom,
                 apc, preload, analytics>>

CallComputeTrackAnalytics(t) ==
  /\ MultiIdle
  /\ ret = NoCall
  /\ ret' = [fn |-> "computeTrackAnalytics", keys |-> <<t>>, days |-> 0,
             val |-> computeTrackAnalytics(t)]
  /\ lastOp' = "computeTrackAnalytics"
  /\ UNCHANGED <<store, catalog, now, problemsCache, session, inputs,
                 mpc, fetch, overall, recent, cards, dom,
                 apc, preload, analytics>>

CallBuildDailySeries(trackKeys, days) ==
  /\ MultiIdle
  /\ ret = NoCall
  /\ ret' = [fn |-> "buildDailySeries", keys |-> trackKeys, days |-> days,
             val |-> buildDailySeries(trackKeys, days)]
  /\ lastOp' = "buildDailySeries"
  /\ UNCHANGED <<store, catalog, now, problemsCache, session, inputs,
                 mpc, fetch, overall, recent, cards, dom,
                 apc, preload, analytics>>

(* ------------------- single-track dashboard and detail ----------------- *)
\* progress[p.id] || { attempts: 0, passes: 0 }
StatOrZero(progress, pid) ==
  IF KeyIndex(progress, pid) # 0 THEN progress[KeyIndex(progress, pid)]
  ELSE [pid |-> pid, attempts |-> 0, passes |-> 0, last |-> 0]

\* topicStats of renderDashboard: per topic, its problems, those solved, and pct
TopicStats(problems, progress) ==
  [tp \in {problems[i].topic : i \in DOMAIN problems} |->
     LET mine == {i \in DOMAIN problems : problems[i].topic = tp}
         solved == {i \in mine : StatOrZero(progress, problems[i].id).passes > 0}
     IN [total |-> Cardinality(mine), solved |-> Cardinality(solved),
         per |-> pct(Cardinality(solved), Cardinality(mine))]]

ZeroSums == [attempts |-> 0, passes |-> 0, solved |-> 0]

\* renderDashboard: what it writes into the summary, the topics and the
\* recent list; a failed loadJson rejects before anything is written
renderDashboard(trackKey, fetchOk) ==
  LET problems == catalog[trackKey]
      progress == StoreGet(trackKey, <<>>).val
      sums == FoldCard(progress, ZeroSums)
  IN IF ~fetchOk
     THEN [threw |-> TRUE,
           summary |-> [solved |-> 0, totalProblems |-> 0, attempts |-> 0,
                        passes |-> 0, accuracy |-> 0],
           topics |-> TopicStats(<<>>, <<>>), recent |-> <<>>]
     ELSE [threw |-> FALSE,
           summary |-> [solved |-> sums.solved, totalProblems |-> Len(problems),
                        attempts |-> sums.attempts, passes |-> sums.passes,
                        accuracy |-> pct(sums.passes, sums.attempts)],
           topics |-> TopicStats(problems, progress),
           recent |-> Slice0(SortRecent(RecentOf(progress, trackKey)), RecentLimit)]

\* the badge of a problem in renderTrackDetail's list
Badge(stat) ==
  IF stat.passes > 0 THEN "solved" ELSE IF stat.attempts > 0 THEN "tried" ELSE "untouched"

\* renderTrackDetail: what it writes into the summary, the problem list and
\* the recent list; a failed loadJson rejects before anything is written
renderTrackDetail(trackKey, fetchOk) ==
  LET problems == catalog[trackKey]
      progress == StoreGet(trackKey, <<>>).val
      total == Len(problems)
      sums == FoldCard(progress, ZeroSums)
  IN IF ~fetchOk
     THEN [threw |-> TRUE,
           summary |-> [solved |-> 0, total |-> 0, attempts |-> 0, passes |-> 0,
                        acc |-> 0, solvedPerc |-> 0],
           badges |-> <<>>, recent |-> <<>>]
     ELSE [threw |-> FALSE,
           summary |-> [solved |-> sums.solved, total |-> total,
                        attempts |-> sums.attempts, passes |-> sums.passes,
                        acc |-> IF sums.attempts # 0
                                THEN MathRound100(sums.passes, sums.attempts) ELSE 0,
                        solvedPerc |-> IF total # 0
                                       THEN MathRound100(sums.solved, total) ELSE 0],
           badges |-> [i \in DOMAIN problems |-> Badge(StatOrZero(progress, problems[i].id))],
           recent |-> SortRecent(RecentOf(progress, trackKey))]

CallRenderDashboard(t, fetchOk) ==
  /\ MultiIdle
  /\ ret = NoCall
  /\ ret' = [fn |-> "renderDashboard", keys |-> <<t>>, days |-> 0,
             val |-> renderDashboard(t, fetchOk)]
  /\ lastOp' = "renderDashboard"
  /\ UNCHANGED <<store, catalog, now, problemsCache, session, inputs,
                 mpc, fetch, overall, recent, cards, dom, apc, preload, analytics>>

\* a detail page that writes the record it has read back into the store
CallRenderTrackDetailRepairing(t, fetchOk) ==
  /\ MultiIdle
  /\ ret = NoCall
  /\ ret' = [fn |-> "renderTrackDetail", keys |-> <<t>>, days |-> 0,
             val |-> renderTrackDetail(t, fetchOk)]
  /\ store' = [store EXCEPT ![t] = JsonStringify(StoreGet(t, <<>>).val)]
  /\ session' = NoSession
  /\ inputs' = <<>>
  /\ lastOp' = "renderTrackDetail"
  /\ UNCHANGED <<catalog, now, problemsCache,
                 mpc, fetch, overall, recent, cards, dom, apc, preload, analytics>>

\* the track's detail page is opened: a practice page that was open is left
CallRenderTrackDetail(t, fetchOk) ==
  /\ MultiIdle
  /\ ret = NoCall
  /\ ret' = [fn |-> "renderTrackDetail", keys |-> <<t>>, days |-> 0,
             val |-> renderTrackDetail(t, fetchOk)]
  /\ session' = NoSession
  /\ inputs' = <<>>
  /\ lastOp' = "renderTrackDetail"
  /\ UNCHANGED <<store, catalog, now, problemsCache,
                 mpc, fetch, overall, recent, cards, dom, apc, preload, analytics>>

(* --------------------------- analytics page ---------------------------- *)
PreloadNoCatch(t, ok) ==
  IF ok THEN [threw |-> FALSE, cache |-> CacheList(catalog[t])]
  ELSE [threw |-> TRUE, cache |-> problemsCache[t]]

\* the try / catch of preloadProblemsForTracks's callback: what it leaves in
\* the cache for track t, and whether it rejects
Preload(t, ok) ==
  IF ok THEN [threw |-> FALSE, cache |-> CacheList(catalog[t])]
  ELSE [threw |-> FALSE, cache |-> CacheNull]

\* ${st.total || '\u2013'}: a total of 0 is shown as a dash
TotalShown(total) == [known |-> total # 0, n |-> total]

\* the card renderAnalytics builds from computeTrackAnalytics(t)
AnalyticsCard(t) ==
  LET st == computeTrackAnalytics(t)
  IN [done |-> TRUE, title |-> t, solved |-> st.solved, total |-> TotalShown(st.total),
      attempts |-> st.attempts, accuracy |-> st.accuracy,
      lastActive |-> st.lastActive, streak |-> st.streak]

\* renderAnalytics up to its await: preloadProblemsForTracks issues a fetch
\* for every track that has a problemsUrl
StartAnalytics(urls) ==
  /\ MultiIdle
  /\ ret = NoCall
  /\ apc' = "preloading"
  /\ preload' = [t \in Tracks |-> IF t \in urls THEN "pending" ELSE "skipped"]
  /\ lastOp' = "renderAnalytics"
  /\ UNCHANGED <<store, catalog, now, problemsCache, ret, session, inputs,
                 mpc, fetch, overall, recent, cards, dom, analytics>>

\* track t's fetch answers with the problem list
PreloadOk(t) ==
  /\ apc \in {"preloading", "rejected"}
  /\ preload[t] = "pending"
  /\ preload' = [preload EXCEPT ![t] = "ok"]
  /\ problemsCache' = [problemsCache EXCEPT ![t] = Preload(t, TRUE).cache]
  /\ apc' = IF Preload(t, TRUE).threw THEN "rejected" ELSE apc
  /\ lastOp' = "preloadOk"
  /\ UNCHANGED <<store, catalog, now, ret, session, inputs,
                 mpc, fetch, overall, recent, cards, dom, analytics>>

\* track t's fetch fails (network error, or a response that is not ok)
PreloadFail(t) ==
  /\ apc \in {"preloading", "rejected"}
  /\ preload[t] = "pending"
  /\ preload' = [preload EXCEPT ![t] = "fail"]
  /\ problemsCache' = [problemsCache EXCEPT ![t] = Preload(t, FALSE).cache]
  /\ apc' = IF Preload(t, FALSE).threw THEN "rejected" ELSE apc
  /\ lastOp' = "preloadFail"
  /\ UNCHANGED <<store, catalog, now, ret, session, inputs,
                 mpc, fetch, overall, recent, cards, dom, analytics>>

\* renderAnalytics after its await: one card per track, in the tracks' order
RenderAnalyticsCards ==
  /\ apc = "preloading"
  /\ \A t \in Tracks : preload[t] \in {"ok", "fail", "skipped"}
  /\ apc' = "rendered"
  /\ analytics' = [t \in Tracks |-> AnalyticsCard(t)]
  /\ lastOp' = "renderCards"
  /\ UNCHANGED <<store, catalog, now, problemsCache, ret, session, inputs,
                 mpc, fetch, overall, recent, cards, dom, preload>>

(* ------------------------------ initial states ------------------------- *)
Noon == Today * TicksPerDay
\* p.topic of the i-th problem: two topics, alternating
Topic(i) == IF i % 2 = 1 THEN "basics" ELSE "loops"
Problem(i, tests) == [id |-> Pid(i), tests |-> tests, topic |-> Topic(i)]
ProblemsN(n) == [i \in 1..n |-> Problem(i, <<>>)]

PageIdle ==
  /\ ret = NoCall
  /\ session = NoSession
  /\ inputs = <<>>
  /\ mpc = "idle"
  /\ fetch = [t \in Tracks |-> "idle"]
  /\ overall = ZeroOverall
  /\ recent = <<>>
  /\ cards = [t \in Tracks |-> NoCard]
  /\ dom = EmptyDom
  /\ apc = "idle"
  /\ preload = [t \in Tracks |-> "idle"]
  /\ analytics = [t \in Tracks |-> NoStats]
  /\ lastOp = "load"

\* the practice tracks' problems; a test is its expected text
PracticeCatalog ==
  [t \in Tracks |->
     IF t = TrackOrder[1]
     THEN <<Problem(1, << <<"a", " ", "b">> >>), Problem(2, << <<"A">>, <<"b">> >>)>>
     ELSE <<Problem(1, << <<"a">> >>)>>]

AnswerSet == {<<>>, <<" ", "A", " ", " ", "b", "\t">>, <<"a">>, <<"B">>}

\* a browser whose store holds nothing usable yet
Init ==
  /\ store \in [Tracks -> {Missing, Malformed}]
  /\ catalog = PracticeCatalog
  /\ now = Noon
  /\ problemsCache = [t \in Tracks |-> CacheUnset]
  /\ PageIdle

\* store contents of any origin: counters that vary freely
CountStats == [attempts : 0..MaxCount, passes : 0..MaxCount, last : {Noon}]
InitCounts ==
  /\ now = Noon
  /\ \E q \in SeqsUpTo(CountStats, 2) :
       store = [t \in Tracks |-> IF t = TrackOrder[1] THEN JsonStringify(Keyed(q)) ELSE Missing]
  /\ \E n \in 0..MaxProblems :
       catalog = [t \in Tracks |-> IF t = TrackOrder[1] THEN ProblemsN(n)
                                   ELSE ProblemsN(IF n = 0 THEN 0 ELSE 1)]
  /\ problemsCache = [t \in Tracks |-> IF t = TrackOrder[1] THEN CacheList(catalog[t])
                                         ELSE CacheNull]

\* store contents whose activity lies on today and the days before it
StreakStats(t0) ==
  [attempts : {1}, passes : {0}, last : {0} \cup {t0 - d * TicksPerDay : d \in 0..MaxEntries}]
InitStreak ==
  /\ now \in Noon..(Noon + TicksPerDay - 1)
  /\ \E q \in SeqsUpTo(StreakStats(now), MaxEntries) :
       store = [t \in Tracks |-> IF t = TrackOrder[1] THEN JsonStringify(Keyed(q)) ELSE Missing]
  /\ catalog = [t \in Tracks |-> ProblemsN(1)]
  /\ problemsCache = [t \in Tracks |-> CacheUnset]

\* store contents whose activity lies around the edge of the default window
EdgeDays == {0, DefaultDays - 1, DefaultDays, DefaultDays + 1}
SeriesStats ==
  [attempts : {0, 2}, passes : {0},
   last : {0} \cup {(Today - d) * TicksPerDay + k : d \in EdgeDays, k \in 0..(TicksPerDay - 1)}]
InitSeries ==
  /\ now \in Noon..(Noon + TicksPerDay - 1)
  /\ \E q \in SeqsUpTo(SeriesStats, 2) :
     \E other \in {Missing, Malformed,
                   JsonStringify(<<[pid |-> "p1", attempts |-> 1, passes |-> 1, last |-> Noon]>>)} :
       store = [t \in Tracks |-> IF t = TrackOrder[1] THEN JsonStringify(Keyed(q)) ELSE other]
  /\ catalog = [t \in Tracks |-> ProblemsN(1)]
  /\ problemsCache = [t \in Tracks |-> CacheUnset]

\* store contents with many dated entries: the i-th of n entries of a shape
FeedShapes == {"rising", "falling", "ties", "gaps", "same"}
FeedLast(shape, i, n) ==
  CASE shape = "rising" -> i
    [] shape = "falling" -> n + 1 - i
    [] shape = "ties" -> 1 + (i % 2)
    [] shape = "gaps" -> IF i % 3 = 0 THEN 0 ELSE i
    [] OTHER -> 3
FeedRecord(shape, n) ==
  [i \in 1..n |-> [pid |-> Pid(i), attempts |-> 1, passes |-> i % 2, last |-> FeedLast(shape, i, n)]]
InitFeed ==
  /\ now = Noon
  /\ \E sa \in FeedShapes, sb \in FeedShapes :
     \E na \in 0..MaxFeedEntries, nb \in 0..MaxFeedEntries :
       store = [t \in Tracks |-> IF t = TrackOrder[1] THEN JsonStringify(FeedRecord(sa, na))
                                 ELSE JsonStringify(FeedRecord(sb, nb))]
  /\ catalog = [t \in Tracks |-> ProblemsN(2)]
  /\ problemsCache = [t \in Tracks |-> CacheUnset]

InitAnalytics ==
  /\ InitCounts \/ InitStreak \/ InitSeries \/ InitFeed
  /\ PageIdle

(* ------------------------------ specifications ------------------------- *)
Next ==
  \/ \E t \in Tracks, fetchOk \in BOOLEAN : InitPractice(t, fetchOk)
  \/ \E i \in 1..2 : ClickProblem(i)
  \/ \E j \in 1..2, text \in AnswerSet : TypeAnswer(j, text)
  \/ Submit
  \/ Tick
  \/ \E t \in Tracks, fetchOk \in BOOLEAN : CallRenderTrackDetail(t, fetchOk)
  \/ StartMulti
  \/ \E t \in Tracks : FetchOk(t)
  \/ \E t \in Tracks : FetchFail(t)
  \/ RenderMulti

\* the practice page and the dashboard, from a store that holds nothing usable
Spec == Init /\ [][Next]_vars

NextAnalytics ==
  \/ \E t \in Tracks : CallStoreGet(t)
  \/ \E t \in Tracks : CallGetProgress(t)
  \/ \E t \in Tracks : CallComputeTrackAnalytics(t)
  \/ \E k \in KeyLists, days \in WindowSizes : CallBuildDailySeries(k, days)
  \/ \E t \in Tracks, fetchOk \in BOOLEAN : CallRenderDashboard(t, fetchOk)
  \/ \E t \in Tracks, fetchOk \in BOOLEAN : CallRenderTrackDetail(t, fetchOk)
  \/ ret = NoCall /\ apc = "idle" /\ StartMulti
  \/ \E urls \in SUBSET Tracks : StartAnalytics(urls)
  \/ \E t \in Tracks : PreloadOk(t)
  \/ \E t \in Tracks : PreloadFail(t)
  \/ RenderAnalyticsCards
  \/ \E t \in Tracks : FetchOk(t)
  \/ \E t \in Tracks : FetchFail(t)
  \/ RenderMulti

\* the read-only helpers and the dashboard over store contents of any origin
SpecAnalytics == InitAnalytics /\ [][NextAnalytics]_vars

(* ======================= properties of the program ===================== *)
\* what a reader of track t's stored progress can use: the parsed object
Stored(t) == IF store[t].kind = "json" THEN store[t].rec ELSE <<>>
Unusable(t) == store[t].kind \in {"missing", "malformed"}
\* one element per recorded attempt / pass of the record
AttemptUnits(rec) == UNION {{<<i, k>> : k \in 1..rec[i].attempts} : i \in DOMAIN rec}
PassUnits(rec) == UNION {{<<i, k>> : k \in 1..rec[i].passes} : i \in DOMAIN rec}
SolvedKeys(rec) == {i \in DOMAIN rec : rec[i].passes > 0}
\* a is x rounded to the nearest integer, halves up, where x = 100 * p / q
IsRounded(a, p, q) == 2 * q * a <= 200 * p + q /\ 200 * p + q < 2 * q * (a + 1)
Analysed == ret.fn = "computeTrackAnalytics"
AnalysedKey == ret.keys[1]

\* C1: for any ProgressRecord the accuracy of the per-track fold
\* (computeTrackAnalytics, and the dashboard cards' inline formula) is an
\* integer in [0,100].
C1_AccuracyInRange ==
  /\ Analysed => ret.val.accuracy \in 0..100
  /\ \A t \in Tracks : cards[t].done => cards[t].acc \in 0..100

\* C2: in a run of renderDashboardMulti over two tracks where one track's
\* fetch fails and the other's succeeds, the aggregation still completes:
\* the summary is written, its totalProblems counts only the loaded track,
\* and its attempts, passes and solved sum over both tracks' records.
C2_FailedFetchStillCompletes ==
  \A a \in Tracks, b \in Tracks :
    (mpc # "idle" /\ fetch[a] = "fail" /\ fetch[b] = "ok") =>
      /\ dom.overallSet
      /\ dom.overall.totalProblems = Len(catalog[b])
      /\ dom.overall.attempts =
           Cardinality(AttemptUnits(Stored(a))) + Cardinality(AttemptUnits(Stored(b)))
      /\ dom.overall.passes =
           Cardinality(PassUnits(Stored(a))) + Cardinality(PassUnits(Stored(b)))
      /\ dom.overall.solved =
           Cardinality(SolvedKeys(Stored(a))) + Cardinality(SolvedKeys(Stored(b)))

\* the dated entries of the tracks of a key list, as <<track, index>> pairs
DatedOn(trackKeys, day) ==
  {e \in UNION {{<<t, i>> : i \in DOMAIN Stored(t)} : t \in Range(trackKeys)} :
     /\ Stored(e[1])[e[2]].last # 0
     /\ DayKey(Stored(e[1])[e[2]].last) = day}
\* what the entries of a day add to a bucket: attempts, or 1 where attempts is 0
UnitsOn(trackKeys, day) ==
  UNION {{<<e, k>> : k \in 1..(IF Stored(e[1])[e[2]].attempts # 0
                               THEN Stored(e[1])[e[2]].attempts ELSE 1)}
         : e \in DatedOn(trackKeys, day)}
Charted == ret.fn = "buildDailySeries"
ChartTotal == Cardinality(UNION {{<<j, k>> : k \in 1..ret.val.series[j]} : j \in DOMAIN ret.val.series})
TodayKey == DayKey(now)

\* C3 as stated: with a window of 14 days, an attempt whose last timestamp is
\* exactly 14 days before today is counted in a bucket of the series, and one
\* 15 days before today is counted in none.
C3_FourteenDaysBackCounted ==
  (Charted /\ ret.days = DefaultDays) =>
    /\ \A e \in DatedOn(ret.keys, TodayKey - DefaultDays) :
         \E j \in DOMAIN ret.val.labels :
           /\ ret.val.labels[j] = TodayKey - DefaultDays
           /\ ret.val.series[j] >= 1
    /\ \A j \in DOMAIN ret.val.labels : ret.val.labels[j] # TodayKey - (DefaultDays + 1)

\* C3 amended: with a window of 14 days the oldest bucket is the day 13 days
\* before today: the attempts dated that day are counted in it (inclusive
\* boundary), and the series holds nothing but the attempts dated from 13
\* days back to today, so an attempt dated 14 or 15 days back adds 0 to
\* every bucket.
C3_WindowEdge ==
  (Charted /\ ret.days = DefaultDays) =>
    /\ ret.val.labels[1] = TodayKey - (DefaultDays - 1)
    /\ ret.val.series[1] = Cardinality(UnitsOn(ret.keys, TodayKey - (DefaultDays - 1)))
    /\ \A j \in DOMAIN ret.val.labels :
         /\ ret.val.labels[j] \notin {TodayKey - DefaultDays, TodayKey - (DefaultDays + 1)}
         /\ ret.val.series[j] = Cardinality(UnitsOn(ret.keys, ret.val.labels[j]))
    /\ ChartTotal =
         Cardinality(UNION {UnitsOn(ret.keys, TodayKey - d) : d \in 0..(DefaultDays - 1)})

\* an attempt 13 days back is charted while one 14 days back is left out
C3_Witness ==
  /\ Charted /\ ret.days = DefaultDays
  /\ DatedOn(ret.keys, TodayKey - (DefaultDays - 1)) # {}
  /\ DatedOn(ret.keys, TodayKey - DefaultDays) # {}
  /\ ret.val.series[1] = 2
  /\ ChartTotal = 2

\* C4: for every window size N and every stored progress (empty, sparse, or
\* dated outside the window) buildDailySeries returns exactly N labels and
\* exactly N counts, the labels being the N consecutive days that end today,
\* oldest first.
C4_ExactWindow ==
  Charted =>
    /\ Len(ret.val.labels) = ret.days
    /\ Len(ret.val.series) = ret.days
    /\ \A j \in 1..ret.days : ret.val.labels[j] = TodayKey - (ret.days - j)
    /\ \A j \in 1..ret.days : ret.val.series[j] >= 0

\* a 14-day series over a store whose only activity is outside the window
C4_Witness ==
  /\ Charted /\ ret.days = DefaultDays
  /\ DatedOn(ret.keys, TodayKey - (DefaultDays + 1)) # {}
  /\ ChartTotal = 0
  /\ Len(ret.val.series) = DefaultDays
  /\ ret.val.labels[DefaultDays] = TodayKey

\* the days on which the analysed track has activity, as offsets back from today
ActiveOffsets == {TodayKey - d : d \in DaysSet(Stored(AnalysedKey))}
\* the first offset >= 1 that has no activity (the walk's cap when there is none)
FirstGap ==
  LET gaps == {o \in 1..StreakCap : o \notin ActiveOffsets}
  IN IF gaps = {} THEN StreakCap ELSE CHOOSE o \in gaps : \A g \in gaps : o <= g

\* C5: the streak is the number of active days among the offsets before the
\* first inactive offset >= 1 (an inactive today does not end the walk);
\* activity on {today-1, today-2, today-3} gives 3, on {today, today-1}
\* gives 2, and no activity gives 0.
C5_Streak ==
  Analysed =>
    /\ ret.val.streak = Cardinality({o \in 0..(FirstGap - 1) : o \in ActiveOffsets})
    /\ ActiveOffsets = {1, 2, 3} => ret.val.streak = 3
    /\ ActiveOffsets = {0, 1} => ret.val.streak = 2
    /\ ActiveOffsets = {} => ret.val.streak = 0

\* three active days before an inactive today
C5_Witness ==
  /\ Analysed
  /\ ActiveOffsets = {1, 2, 3}
  /\ ret.val.streak = 3

\* C6: renderDashboardMulti writes no overall summary, no track card and no
\* recent feed while a fetch of its batch is still pending.
C6_NoPartialResults ==
  (dom.overallSet \/ dom.tracksSet \/ dom.recentSet) =>
    \A t \in Tracks : fetch[t] \in {"ok", "fail"}

\* a dashboard rendered after both fetches, over a store that has attempts
C6_Witness ==
  /\ mpc = "rendered"
  /\ dom.overallSet /\ dom.tracksSet /\ dom.recentSet
  /\ dom.overall.attempts > 0
  /\ \A t \in Tracks : fetch[t] = "ok"

RECURSIVE Words(_)
\* the words of a text, lower-cased: its maximal runs of non-space characters
Words(s) ==
  IF s = <<>> THEN <<>>
  ELSE IF IsSpace(Head(s)) THEN Words(Tail(s))
  ELSE LET rest == Words(Tail(s))
           c == ToLowerChar(Head(s))
       IN IF Len(s) > 1 /\ ~IsSpace(s[2])
          THEN <<(<<c>> \o Head(rest))>> \o Tail(rest)
          ELSE <<(<<c>>)>> \o rest
\* the stat stored under a problem id, zeros when the record has none
StatOf(rec, pid) ==
  IF KeyIndex(rec, pid) # 0 THEN rec[KeyIndex(rec, pid)]
  ELSE [pid |-> pid, attempts |-> 0, passes |-> 0, last |-> 0]
CurrentProblem == catalog[session.trackKey][session.cur]
AllAnswersMatch ==
  \A i \in DOMAIN CurrentProblem.tests : Words(inputs[i]) = Words(CurrentProblem.tests[i])

\* C7: a recorded attempt adds exactly 1 to the problem's stored attempts,
\* adds exactly 1 to its passes if and only if every answer matches its
\* expected text after normalisation (and leaves passes as it was otherwise),
\* and sets last to the current time; no other operation changes the store.
C7_RecordAttempt ==
  [][/\ store' # store => lastOp' = "submit"
     /\ lastOp' = "submit" =>
          LET old == StatOf(Stored(session.trackKey), CurrentProblem.id)
              new == StatOf(store'[session.trackKey].rec, CurrentProblem.id)
          IN /\ store'[session.trackKey].kind = "json"
             /\ new.attempts = old.attempts + 1
             /\ new.passes = old.passes + (IF AllAnswersMatch THEN 1 ELSE 0)
             /\ new.last = now]_vars

\* a problem with one failed and one passed attempt on record
C7_Witness ==
  /\ lastOp = "submit"
  /\ \E i \in DOMAIN Stored(session.trackKey) :
       /\ Stored(session.trackKey)[i].attempts = 2
       /\ Stored(session.trackKey)[i].passes = 1
       /\ Stored(session.trackKey)[i].last = now

\* C8: reading a track's progress whose stored item is missing or malformed
\* returns an empty record and throws nothing, from Store.get(key, {}) and
\* from getProgress alike, and the aggregations over it see an empty record:
\* a zero fold, a card of zeros, no feed entry and an all-zero series.
C8_UnusableReadsEmpty ==
  /\ (ret.fn \in {"Store.get", "getProgress"} /\ Unusable(ret.keys[1])) =>
       ret.val = [threw |-> FALSE, val |-> <<>>]
  /\ (Analysed /\ Unusable(AnalysedKey)) =>
       /\ ret.val.attempts = 0 /\ ret.val.passes = 0 /\ ret.val.solved = 0
       /\ ret.val.accuracy = 0 /\ ret.val.lastActive = 0 /\ ret.val.streak = 0
  /\ (Charted /\ \A i \in DOMAIN ret.keys : Unusable(ret.keys[i])) => ChartTotal = 0
  /\ \A t \in Tracks : (cards[t].done /\ Unusable(t)) =>
       /\ cards[t].attempts = 0 /\ cards[t].passes = 0 /\ cards[t].solved = 0
       /\ cards[t].acc = 0 /\ cards[t].solvedPerc = 0
       /\ \A i \in DOMAIN recent : recent[i].track # t

\* Store.get has answered for a key whose stored item is not JSON
C8_Witness ==
  /\ ret.fn = "Store.get"
  /\ store[ret.keys[1]].kind = "malformed"
  /\ ret.val.val = <<>>
  /\ ~ret.val.threw

\* the dated entries of all tracks, as <<track, index>> pairs
DatedPairs ==
  {e \in UNION {{<<t, i>> : i \in DOMAIN Stored(t)} : t \in Tracks} : Stored(e[1])[e[2]].last # 0}
PairOf(e) == Stored(e[1])[e[2]]
InFeed(e) ==
  \E j \in DOMAIN dom.recent :
    dom.recent[j].track = e[1] /\ dom.recent[j].pid = PairOf(e).pid

\* C9: the feed renderDashboardMulti renders holds min(10, n) records, n being
\* the number of dated (problem, stat) pairs over all tracks; they are
\* distinct pairs with passed = (passes > 0), in non-increasing when order,
\* and no pair left out is more recent than a record of the feed.
C9_RecentFeed ==
  mpc = "rendered" =>
    LET feed == dom.recent
        n == Cardinality(DatedPairs)
    IN /\ Len(feed) = IF n < FeedLimit THEN n ELSE FeedLimit
       /\ \A j \in 1..(Len(feed) - 1) : feed[j].when >= feed[j + 1].when
       /\ \A j \in DOMAIN feed :
            \E e \in DatedPairs :
              /\ feed[j].track = e[1] /\ feed[j].pid = PairOf(e).pid
              /\ feed[j].when = PairOf(e).last
              /\ feed[j].passed = (PairOf(e).passes > 0)
       /\ \A j \in DOMAIN feed, k \in DOMAIN feed :
            j # k => <<feed[j].track, feed[j].pid>> # <<feed[k].track, feed[k].pid>>
       /\ \A e \in DatedPairs :
            ~InFeed(e) => \A j \in DOMAIN feed : PairOf(e).last <= feed[j].when

\* more than ten dated pairs, of which the feed keeps ten
C9_Witness ==
  /\ mpc = "rendered"
  /\ Cardinality(DatedPairs) > FeedLimit
  /\ Len(dom.recent) = FeedLimit
  /\ dom.recent[1].when > dom.recent[FeedLimit].when

\* the example of the fold: {p1: 3 attempts 1 pass, p2: 2 attempts 2 passes}
ExampleRecord(rec) ==
  /\ Len(rec) = 2
  /\ rec[1].attempts = 3 /\ rec[1].passes = 1
  /\ rec[2].attempts = 2 /\ rec[2].passes = 2

\* C10: the per-track fold yields total = the number of problems, solved =
\* the number of entries with passes > 0, attempts and passes = the sums over
\* the entries, and accuracy = round(100 * passes / attempts), in
\* computeTrackAnalytics (when the problem list is cached) and on the
\* dashboard's cards; 5 problems with {p1: 3/1, p2: 2/2} give solved 2,
\* total 5, attempts 5, passes 3, accuracy 60.
C10_Fold ==
  /\ Analysed =>
       LET rec == Stored(AnalysedKey)
           st == ret.val
       IN /\ problemsCache[AnalysedKey].kind = "list" => st.total = Len(catalog[AnalysedKey])
          /\ st.solved = Cardinality(SolvedKeys(rec))
          /\ st.attempts = Cardinality(AttemptUnits(rec))
          /\ st.passes = Cardinality(PassUnits(rec))
          /\ st.attempts > 0 => IsRounded(st.accuracy, st.passes, st.attempts)
          /\ (ExampleRecord(rec) /\ Len(catalog[AnalysedKey]) = 5
                /\ problemsCache[AnalysedKey].kind = "list") =>
               /\ st.solved = 2 /\ st.total = 5 /\ st.attempts = 5
               /\ st.passes = 3 /\ st.accuracy = 60
  /\ \A t \in Tracks : cards[t].done =>
       LET rec == Stored(t)
           c == cards[t]
       IN /\ c.total = Len(catalog[t])
          /\ c.solved = Cardinality(SolvedKeys(rec))
          /\ c.attempts = Cardinality(AttemptUnits(rec))
          /\ c.passes = Cardinality(PassUnits(rec))
          /\ c.attempts > 0 => IsRounded(c.acc, c.passes, c.attempts)

\* the example record analysed against a cached list of 5 problems
C10_Witness ==
  /\ Analysed
  /\ ExampleRecord(Stored(AnalysedKey))
  /\ problemsCache[AnalysedKey].kind = "list"
  /\ ret.val.total = 5
  /\ ret.val.accuracy = 60

\* C11: accuracy is 0 whenever the attempts total is 0 and solved-percentage
\* is 0 whenever the problem total is 0, per track and overall, whatever the
\* passes and solved counts are, and the value is a number.
C11_ZeroTotals ==
  /\ (Analysed /\ AttemptUnits(Stored(AnalysedKey)) = {}) =>
       ret.val.attempts = 0 /\ ret.val.accuracy = 0
  /\ \A t \in Tracks : cards[t].done =>
       /\ cards[t].acc \in Nat /\ cards[t].solvedPerc \in Nat
       /\ AttemptUnits(Stored(t)) = {} => cards[t].acc = 0
       /\ Len(catalog[t]) = 0 => cards[t].solvedPerc = 0
  /\ dom.overallSet =>
       /\ dom.accOverall \in Nat /\ dom.solvedPercAll \in Nat
       /\ (\A t \in Tracks : AttemptUnits(Stored(t)) = {}) => dom.accOverall = 0
       /\ (\A t \in Tracks : Len(catalog[t]) = 0) => dom.solvedPercAll = 0

\* a rendered dashboard over no problems and no attempts, with a pass on record
C11_Witness ==
  /\ mpc = "rendered"
  /\ dom.overall.totalProblems = 0 /\ dom.overall.attempts = 0
  /\ dom.overall.passes > 0 /\ dom.overall.solved > 0
  /\ dom.accOverall = 0 /\ dom.solvedPercAll = 0

\* C12: in renderAnalytics a failed problem-list fetch of one track rejects
\* nothing: every fetched list is in the cache, every track gets its card,
\* and the failed track's card has total 0 (shown as unknown) while its
\* solved, attempts and accuracy (from passes) are those of its stored record.
C12_PreloadFailureIsolated ==
  /\ apc # "rejected"
  /\ \A t \in Tracks :
       /\ preload[t] = "ok" => problemsCache[t] = CacheList(catalog[t])
       /\ preload[t] = "fail" => problemsCache[t] = CacheNull
  /\ apc = "rendered" =>
       \A t \in Tracks :
         LET c == analytics[t]
             rec == Stored(t)
         IN /\ c.done
            /\ preload[t] = "ok" => c.total.n = Len(catalog[t])
            /\ preload[t] = "fail" => c.total = [known |-> FALSE, n |-> 0]
            /\ c.solved = Cardinality(SolvedKeys(rec))
            /\ c.attempts = Cardinality(AttemptUnits(rec))
            /\ c.attempts > 0 =>
                 IsRounded(c.accuracy, Cardinality(PassUnits(rec)), c.attempts)

\* cards rendered after one track's fetch failed and the other's succeeded
C12_Witness ==
  /\ apc = "rendered"
  /\ \E a \in Tracks, b \in Tracks :
       /\ preload[a] = "fail" /\ preload[b] = "ok"
       /\ analytics[a].done /\ analytics[b].done
       /\ ~analytics[a].total.known /\ analytics[a].attempts > 0 /\ analytics[a].solved > 0
       /\ analytics[b].total.known

\* the attempts counts of the entries of a day (every stored stat has its
\* attempts field set, so the count is the field's value)
AttemptsOn(trackKeys, day) ==
  UNION {{<<e, k>> : k \in 1..Stored(e[1])[e[2]].attempts} : e \in DatedOn(trackKeys, day)}

AggregationOps ==
  {"renderDashboard", "renderTrackDetail", "computeTrackAnalytics", "buildDailySeries",
   "renderDashboardMulti", "fetchOk", "fetchFail", "renderMulti",
   "renderAnalytics", "preloadOk", "preloadFail", "renderCards"}

\* C14: no step of an aggregation operation (renderDashboard,
\* renderDashboardMulti, renderTrackDetail, computeTrackAnalytics,
\* buildDailySeries, renderAnalytics) changes the store: every track's stored
\* item is the same after the step as before it.
C14_AggregationReadsOnly ==
  [][lastOp' \in AggregationOps => \A t \in Tracks : store'[t] = store[t]]_vars

\* a detail page rendered from a stored item that is not JSON, which stays as it was
C14_Witness ==
  /\ lastOp = "renderTrackDetail"
  /\ ~ret.val.threw
  /\ store[ret.keys[1]].kind = "malformed"
  /\ \E t \in Tracks : Stored(t) # <<>>

\* C15: from an empty record, after any sequence of recorded attempts every
\* stat has passes <= attempts, in the stored record and in the practice
\* page's in-memory record.
C15_PassesAtMostAttempts ==
  /\ \A t \in Tracks : \A i \in DOMAIN Stored(t) :
       Stored(t)[i].passes <= Stored(t)[i].attempts
  /\ \A i \in DOMAIN session.progress :
       session.progress[i].passes <= session.progress[i].attempts

\* a problem passed on each of its two recorded attempts, beside a failed one
C15_Witness ==
  /\ lastOp = "submit"
  /\ \E i \in DOMAIN session.progress :
       session.progress[i].attempts = 2 /\ session.progress[i].passes = 2
  /\ \E t \in Tracks : \E i \in DOMAIN Stored(t) :
       Stored(t)[i].attempts = 1 /\ Stored(t)[i].passes = 0

\* the problem ids a record has a stat for
KeysOf(rec) == {rec[i].pid : i \in DOMAIN rec}

\* C16: a recorded attempt on problem p leaves the stat of every other
\* problem as it was, in memory and in the store, leaves every other track's
\* stored item as it was, removes no entry, decreases no attempts or passes
\* counter, and leaves under the track key the page's in-memory record.
C16_RecordAttemptFrame ==
  [][lastOp' = "submit" =>
       LET tk == session.trackKey
           p == CurrentProblem.id
           old == session.progress
           new == session'.progress
       IN /\ session'.trackKey = tk
          /\ \A t \in Tracks \ {tk} : store'[t] = store[t]
          /\ KeysOf(old) \subseteq KeysOf(new)
          /\ KeysOf(Stored(tk)) \subseteq KeysOf(store'[tk].rec)
          /\ Len(new) >= Len(old)
          /\ \A q \in KeysOf(old) \ {p} :
               /\ StatOf(new, q) = StatOf(old, q)
               /\ StatOf(store'[tk].rec, q) = StatOf(old, q)
          /\ \A q \in KeysOf(old) :
               /\ StatOf(new, q).attempts >= StatOf(old, q).attempts
               /\ StatOf(new, q).passes >= StatOf(old, q).passes
          /\ \A q \in KeysOf(Stored(tk)) :
               /\ StatOf(store'[tk].rec, q).attempts >= StatOf(Stored(tk), q).attempts
               /\ StatOf(store'[tk].rec, q).passes >= StatOf(Stored(tk), q).passes
          /\ store'[tk] = JsonStringify(new)]_vars

\* an attempt recorded beside another problem's stat and another track's record
C16_Witness ==
  /\ lastOp = "submit"
  /\ Len(session.progress) = 2
  /\ store[session.trackKey] = JsonStringify(session.progress)
  /\ \E t \in Tracks \ {session.trackKey} : Stored(t) # <<>>

\* the tracks' problems, attempts, passes and solved entries, each tagged by its track
AllProblems == UNION {{<<t, i>> : i \in DOMAIN catalog[t]} : t \in Tracks}
AllAttempts == UNION {{<<t, u>> : u \in AttemptUnits(Stored(t))} : t \in Tracks}
AllPasses == UNION {{<<t, u>> : u \in PassUnits(Stored(t))} : t \in Tracks}
AllSolved == UNION {{<<t, i>> : i \in SolvedKeys(Stored(t))} : t \in Tracks}
\* the order in which the sections' callbacks ran, read off entries of equal time
CompletedBefore(a, b) ==
  \E i \in DOMAIN recent, j \in DOMAIN recent :
    i < j /\ recent[i].track = a /\ recent[j].track = b /\ recent[i].when = recent[j].when

\* C17: when every fetch succeeds, the overall totals renderDashboardMulti
\* renders do not depend on the order in which the fetches complete: they
\* are the sums over all tracks of problems, attempts, passes and solved
\* entries, and the two percentages of those sums.
C17_OrderIndependentTotals ==
  mpc = "rendered" =>
    /\ dom.overall.totalProblems = Cardinality(AllProblems)
    /\ dom.overall.attempts = Cardinality(AllAttempts)
    /\ dom.overall.passes = Cardinality(AllPasses)
    /\ dom.overall.solved = Cardinality(AllSolved)
    /\ dom.accOverall =
         IF AllAttempts = {} THEN 0
         ELSE (200 * Cardinality(AllPasses) + Cardinality(AllAttempts))
                \div (2 * Cardinality(AllAttempts))
    /\ dom.solvedPercAll =
         IF AllProblems = {} THEN 0
         ELSE (200 * Cardinality(AllSolved) + Cardinality(AllProblems))
                \div (2 * Cardinality(AllProblems))

\* a dashboard rendered after the second section's fetch completed first
C17_Witness ==
  /\ mpc = "rendered"
  /\ CompletedBefore(TrackOrder[2], TrackOrder[1])
  /\ Cardinality(AttemptUnits(Stored(TrackOrder[1]))) # Cardinality(AttemptUnits(Stored(TrackOrder[2])))
  /\ dom.overall.attempts = Cardinality(AllAttempts)
  /\ dom.overall.solved > 0

Detailed == ret.fn = "renderTrackDetail" /\ ~ret.val.threw
\* the ids of a track's problem list
CatalogIds(t) == {catalog[t][i].id : i \in DOMAIN catalog[t]}

\* C18: from an empty store and a fixed problem list, after any sequence of
\* attempts recorded through the practice page every stored stat belongs to
\* a problem of the list, a track's solved count is at most its problem
\* total, and the solved-percentage of renderDashboardMulti (per card and
\* overall) and of renderTrackDetail is in [0,100].
C18_SolvedWithinTotal ==
  /\ catalog = PracticeCatalog
  /\ \A t \in Tracks :
       /\ KeysOf(Stored(t)) \subseteq CatalogIds(t)
       /\ Cardinality(KeysOf(Stored(t))) = Len(Stored(t))
       /\ Cardinality(SolvedKeys(Stored(t))) <= Len(catalog[t])
       /\ cards[t].done =>
            cards[t].solved <= cards[t].total /\ cards[t].solvedPerc \in 0..100
  /\ dom.overallSet =>
       dom.overall.solved <= dom.overall.totalProblems /\ dom.solvedPercAll \in 0..100
  /\ Detailed =>
       /\ ret.val.summary.solved <= ret.val.summary.total
       /\ ret.val.summary.solvedPerc \in 0..100

\* the detail page of a track whose two problems are both solved
C18_Witness ==
  /\ Detailed
  /\ lastOp = "renderTrackDetail"
  /\ ret.val.summary.total = 2
  /\ ret.val.summary.solved = 2
  /\ ret.val.summary.solvedPerc = 100
  /\ ret.val.summary.attempts = 3

====
